---- MODULE Spec2Model ----
(***************************************************************************)
(* Model of python-server/dispense.py: the Square webhook endpoint, the    *)
(* background handler handle_square_event and the GPIO relay lines.        *)
(*                                                                         *)
(* All handlers run on one asyncio event loop.  A handler gives up the     *)
(* loop only at an await (the three client.get calls); everything between  *)
(* two awaits is one step.  time.sleep(3.3) does not give up the loop: it  *)
(* blocks it, so while a handler is in its dwell no other step runs.       *)
(***************************************************************************)
EXTENDS Integers, Sequences, FiniteSets, TLC

VARIABLES
    phase,             \* "boot" | "serving" | "down"
    booted,            \* number of RELAY_PINS entries set up by __main__
    gpio,              \* BCM pin -> "UNSET" | "HIGH" | "LOW"   (LOW = relay on)
    processed_orders,  \* the module-level set
    received,          \* number of webhook requests handled so far
    payload,           \* delivery -> parsed request body
    resp,              \* delivery -> HTTP response sent for the request
    pc,                \* delivery -> position of its request / background task
    order_id,          \* delivery -> local order_id of the handler
    line_items,        \* delivery -> local line_items of the handler
    idx,               \* delivery -> 1-based position of `item` in line_items
    selection_uid,     \* delivery -> local selection_uid
    definition_id,     \* delivery -> local definition_id
    slot_label,        \* delivery -> local slot_label
    order_status,      \* delivery -> order_response.status_code (0: none yet)
    nfetch,            \* history: delivery -> number of GETs issued, by kind
    hist,              \* history: delivery -> per line item outcome
    owner              \* history: BCM pin -> <<delivery, item>> that drove it LOW

vars == <<phase, booted, gpio, processed_orders, received, payload, resp, pc,
          order_id, line_items, idx, selection_uid, definition_id, slot_label,
          order_status, nfetch, hist, owner>>

----------------------------------------------------------------------------
(* Bounds *)

NumDeliveries == 2

Deliveries == 1..NumDeliveries

----------------------------------------------------------------------------
(* Program constants *)

None == "None"

NumRelays == 16

RELAY_PINS == <<2, 3, 4, 17, 27, 22, 10, 9, 11, 5, 6, 13, 19, 26, 14, 15>>

Pins == {RELAY_PINS[r] : r \in 1..NumRelays}

SLOT_RELAY ==
    [s \in {"A1", "A2", "A3", "A4", "B1", "B2", "B3", "B4",
            "C1", "C2", "C3", "C4", "F1", "F2", "F3", "F4"} |->
        CASE s = "A1" -> <<3, 12, 13, 14>>
          [] s = "A2" -> <<3, 7, 13, 14>>
          [] s = "A3" -> <<3, 7, 12, 14>>
          [] s = "A4" -> <<3, 7, 12, 13>>
          [] s = "B1" -> <<2, 12, 13, 14>>
          [] s = "B2" -> <<2, 7, 13, 14>>
          [] s = "B3" -> <<2, 7, 12, 14>>
          [] s = "B4" -> <<2, 7, 12, 13>>
          [] s = "C1" -> <<5, 12, 13, 14>>
          [] s = "C2" -> <<5, 7, 13, 14>>
          [] s = "C3" -> <<5, 7, 12, 14>>
          [] s = "C4" -> <<5, 7, 12, 13>>
          [] s = "F1" -> <<6, 12, 13, 14>>
          [] s = "F2" -> <<6, 7, 13, 14>>
          [] s = "F3" -> <<6, 7, 12, 14>>
          [] s = "F4" -> <<6, 7, 12, 13>>]

\* Variant: a label that is not in the table falls back to the first slot.
SlotRelayGetFallback(label) ==
    IF label \in DOMAIN SLOT_RELAY THEN SLOT_RELAY[label] ELSE SLOT_RELAY["A1"]

\* SLOT_RELAY.get(slot_label, [])
SlotRelayGet(label) ==
    IF label \in DOMAIN SLOT_RELAY THEN SLOT_RELAY[label] ELSE <<>>

\* The return value of handle_square_webhook, sent as HTTP 200.
Ack == [status |-> 200, body |-> "Webhook received and processing started"]

\* What the framework answers when request.json() raises.
ParseError == [status |-> 500, body |-> "Internal Server Error"]

NoResponse == [status |-> 0, body |-> None]

----------------------------------------------------------------------------
(* Request bodies the platform may POST.  `parseable` is whether             *)
(* request.json() succeeds; `has_object` is whether data.object is present   *)
(* (payload.get("data", {}).get("object") is None otherwise).                *)

OrderIds == {"o1", "o2"}

Body(parseable, has_object, type, status, oid) ==
    [parseable |-> parseable, has_object |-> has_object, type |-> type,
     status |-> status, order_id |-> oid]

Bodies ==
    {Body(TRUE, TRUE, "payment.updated", "COMPLETED", o) : o \in OrderIds}
    \cup {Body(TRUE, TRUE, "payment.created", "COMPLETED", "o1"),
          Body(TRUE, TRUE, "payment.updated", "APPROVED", "o1"),
          Body(TRUE, TRUE, "payment.updated", "COMPLETED", None),
          Body(TRUE, FALSE, "payment.updated", None, None),
          Body(FALSE, FALSE, None, None, None)}

NoBody == Body(FALSE, FALSE, None, None, None)

----------------------------------------------------------------------------
(* What the platform holds: orders, catalog objects, the attribute           *)
(* definition.  A GET answers with this data, or fails, or times out.        *)

Item(cid, uid) == [catalog_object_id |-> cid, uid |-> uid]

Attr(sel, def) == [selection_uid |-> sel, custom_attribute_definition_id |-> def]

Selection(uid, name) == [uid |-> uid, name |-> name]

\* order id -> order.line_items.  Slot D1 exists in the machine (Slot_Trigger.py)
\* but not in SLOT_RELAY of dispense.py.
RemoteOrders ==
    [o \in OrderIds |->
        IF o = "o1"
        THEN <<Item("cA1", "u1"), Item(None, "cNoSel"), Item("cB1", "u3")>>
        ELSE <<Item(None, None), Item("cNoAttr", "u5"), Item("cA2", "u6"),
               Item("cD1", "u7")>>]

\* catalog object id -> object.custom_attribute_values (its values, in order)
RemoteObjects ==
    [c \in {"cA1", "cB1", "cA2", "cD1", "cNoSel", "cNoAttr"} |->
        CASE c = "cA1" -> <<Attr("sA1", "def")>>
          [] c = "cB1" -> <<Attr("sB1", "def"), Attr("sA1", "def")>>
          [] c = "cA2" -> <<Attr("sA2", "def")>>
          [] c = "cD1" -> <<Attr("sD1", "def")>>
          [] c = "cNoSel" -> <<Attr("sGone", "def")>>
          [] c = "cNoAttr" -> <<>>]

\* definition id -> selection_config.allowed_selections
RemoteDefinitions ==
    [d \in {"def"} |->
        <<Selection("sA1", "A1"), Selection("sA2", "A2"), Selection("sB1", "B1"),
          Selection("sD1", "D1")>>]

\* A response of client.get: raised (timeout, connection error), or a status
\* with a body.
Reply(raised, status, body) == [raised |-> raised, status |-> status, body |-> body]

Failures == {Reply(TRUE, 0, <<>>), Reply(FALSE, 500, <<>>)}

OrderReplies(o) ==
    Failures \cup (IF o \in DOMAIN RemoteOrders
                   THEN {Reply(FALSE, 200, RemoteOrders[o])}
                   ELSE {Reply(FALSE, 404, <<>>)})

ObjectReplies(c) ==
    Failures \cup (IF c \in DOMAIN RemoteObjects
                   THEN {Reply(FALSE, 200, RemoteObjects[c])}
                   ELSE {Reply(FALSE, 404, <<>>)})

DefinitionReplies(d) ==
    Failures \cup (IF d \in DOMAIN RemoteDefinitions
                   THEN {Reply(FALSE, 200, RemoteDefinitions[d])}
                   ELSE {Reply(FALSE, 404, <<>>)})

----------------------------------------------------------------------------
(* Pure parts of handle_square_event *)

\* Variant: the payment status is not looked at.
IgnorableStatusBlind(p) ==
    \/ p.type # "payment.updated"
    \/ p.order_id = None

\* if event_type != "payment.updated" or status != "COMPLETED" or not order_id
Ignorable(p) ==
    \/ p.type # "payment.updated"
    \/ p.status # "COMPLETED"
    \/ p.order_id = None

\* Variant: the membership test never finds the order.
AlreadyProcessedNever(o, po) == FALSE

\* if order_id in processed_orders
AlreadyProcessed(o, po) == o \in po

\* Variant: the insert is lost.
AdmitLost(o, po) == po

\* Variant: the set remembers only the latest order.
AdmitReplace(o, po) == {o}

\* processed_orders.add(order_id)
Admit(o, po) == po \cup {o}

\* if order_response.status_code != 200
OrderFetchFailed(r) == r.status # 200

\* Variant: a failed order fetch takes the order out of the set again.
AfterFetchErrorReverted(o, po) == po \ {o}

\* processed_orders after the error branch: it returns without touching the set.
AfterFetchError(o, po) == po

\* catalog_object_id = item.get("catalog_object_id") or, failing that, item.get("uid")
CatalogObjectId(item) ==
    IF item.catalog_object_id # None THEN item.catalog_object_id ELSE item.uid

\* The for loop from position i on: items without an id are skipped by
\* `continue`; the result is the position of the next item that is fetched,
\* or Len(items) + 1 when the loop is over.
RECURSIVE NextItem(_, _)
NextItem(items, i) ==
    IF i > Len(items) THEN i
    ELSE IF CatalogObjectId(items[i]) # None THEN i
    ELSE NextItem(items, i + 1)

\* first_attr = next(iter(custom_attrs.values()))
FirstAttr(custom_attrs) == custom_attrs[1]

\* Variant: the name of the first allowed selection is taken, whatever its uid.
FindLabelFirst(allowed_selections, sel) ==
    IF allowed_selections = <<>> THEN None ELSE Head(allowed_selections).name

\* slot_label = next((s["name"] for s in allowed_selections
\*                    if s["uid"] == selection_uid), None)
RECURSIVE FindLabel(_, _)
FindLabel(allowed_selections, sel) ==
    IF allowed_selections = <<>> THEN None
    ELSE IF Head(allowed_selections).uid = sel THEN Head(allowed_selections).name
    ELSE FindLabel(Tail(allowed_selections), sel)

\* if slot_label:
Truthy(label) == label # None /\ label # ""

\* The relays whose lines the first loop drives LOW / the second loop drives
\* HIGH, in loop order.
RelaysToAssert(label) == SlotRelayGet(label)

\* Variant: the second loop is missing.
RelaysToReleaseNone(label) == <<>>

\* Variant: the second loop leaves out the first relay of the slot.
RelaysToReleaseButFirst(label) ==
    IF SlotRelayGet(label) = <<>> THEN <<>> ELSE Tail(SlotRelayGet(label))

RelaysToRelease(label) == SlotRelayGet(label)

\* The lines after GPIO.output(RELAY_PINS[pin], level) for the first k relays.
Written(g, relays, k, level) ==
    [p \in Pins |->
        IF \E n \in 1..k : RELAY_PINS[relays[n]] = p THEN level ELSE g[p]]

NoOwner == <<0, 0>>

Owned(ow, relays, k, who) ==
    [p \in Pins |->
        IF \E n \in 1..k : RELAY_PINS[relays[n]] = p THEN who ELSE ow[p]]

\* A GPIO.output call may raise; k is the number of writes of a loop that
\* succeeded: all of them, or the ones before the write that raised.
WriteOutcomes(relays) == 0..Len(relays)

----------------------------------------------------------------------------
(* State *)

NoFetch == [order |-> 0, object |-> 0, definition |-> 0]

\* Per line item: how its resolution ended, the selection uid and the allowed
\* selections it was resolved with, and how often its relays were driven LOW
\* (asserts) and back HIGH (cycles).
ItemHist ==
    [outcome |-> "pending", selection_uid |-> None, allowed |-> <<>>,
     label |-> None, asserts |-> 0, cycles |-> 0]

Init ==
    /\ phase = "boot"
    /\ booted = 0
    /\ gpio = [p \in Pins |-> "UNSET"]
    /\ processed_orders = {}
    /\ received = 0
    /\ payload = [d \in Deliveries |-> NoBody]
    /\ resp = [d \in Deliveries |-> NoResponse]
    /\ pc = [d \in Deliveries |-> "idle"]
    /\ order_id = [d \in Deliveries |-> None]
    /\ line_items = [d \in Deliveries |-> <<>>]
    /\ idx = [d \in Deliveries |-> 0]
    /\ selection_uid = [d \in Deliveries |-> None]
    /\ definition_id = [d \in Deliveries |-> None]
    /\ slot_label = [d \in Deliveries |-> None]
    /\ order_status = [d \in Deliveries |-> 0]
    /\ nfetch = [d \in Deliveries |-> NoFetch]
    /\ hist = [d \in Deliveries |-> <<>>]
    /\ owner = [p \in Pins |-> NoOwner]

\* Variant: the GETs are blocking calls too, so a pending fetch holds the
\* event loop as the sleep does.
LoopBlockedByFetch ==
    \E d \in Deliveries :
        pc[d] \in {"dwell", "fetch_order", "fetch_object", "fetch_definition"}

\* Variant: the sleep gives up the event loop (as asyncio.sleep would).
LoopBlockedNever == FALSE

\* time.sleep(3.3) holds the event loop: nothing else runs until it returns.
LoopBlocked == \E d \in Deliveries : pc[d] = "dwell"

LoopFree == phase = "serving" /\ ~LoopBlocked

locals == <<order_id, line_items, idx, selection_uid, definition_id, slot_label,
            order_status>>

----------------------------------------------------------------------------
(* __main__ *)

\* for pin in RELAY_PINS.values(): GPIO.setup(pin, GPIO.OUT); GPIO.output(pin, GPIO.HIGH)
SetupPin ==
    /\ phase = "boot"
    /\ booted < NumRelays
    /\ booted' = booted + 1
    /\ gpio' = [gpio EXCEPT ![RELAY_PINS[booted + 1]] = "HIGH"]
    /\ UNCHANGED <<phase, processed_orders, received, payload, resp, pc, locals,
                   nfetch, hist, owner>>

\* Variant: the server is started without waiting for the setup loop.
UvicornRunEarly ==
    /\ phase = "boot"
    /\ phase' = "serving"
    /\ UNCHANGED <<booted, gpio, processed_orders, received, payload, resp, pc,
                   locals, nfetch, hist, owner>>

\* uvicorn.run(app, ...)
UvicornRun ==
    /\ phase = "boot"
    /\ booted = NumRelays
    /\ phase' = "serving"
    /\ UNCHANGED <<booted, gpio, processed_orders, received, payload, resp, pc,
                   locals, nfetch, hist, owner>>

\* The process ends (uvicorn.run returns on a signal, or the process is
\* killed).  Nothing follows uvicorn.run: no line is written.  What the
\* process held in memory is gone with it (processed_orders, the tasks and
\* their locals); the lines keep their level, and the responses already sent
\* stay sent.
ProcessExit ==
    /\ phase = "serving"
    /\ phase' = "down"
    /\ processed_orders' = {}
    /\ received' = 0
    /\ payload' = [d \in Deliveries |-> NoBody]
    /\ pc' = [d \in Deliveries |-> "idle"]
    /\ order_id' = [d \in Deliveries |-> None]
    /\ line_items' = [d \in Deliveries |-> <<>>]
    /\ idx' = [d \in Deliveries |-> 0]
    /\ selection_uid' = [d \in Deliveries |-> None]
    /\ definition_id' = [d \in Deliveries |-> None]
    /\ slot_label' = [d \in Deliveries |-> None]
    /\ order_status' = [d \in Deliveries |-> 0]
    /\ nfetch' = [d \in Deliveries |-> NoFetch]
    /\ hist' = [d \in Deliveries |-> <<>>]
    /\ UNCHANGED <<booted, gpio, resp, owner>>

----------------------------------------------------------------------------
(* handle_square_webhook *)

\* Variant: the endpoint awaits the event's processing instead of queueing it,
\* so no response exists yet when the processing starts.
RespondAfterProcessing(body) == IF body.parseable THEN NoResponse ELSE ParseError

\* The response of the endpoint: the acknowledgement, returned right after
\* background_tasks.add_task; the framework's error when request.json() raises.
Respond(body) == IF body.parseable THEN Ack ELSE ParseError

\* Requests are numbered in the order the endpoint handles them.
Webhook(d) ==
    /\ LoopFree
    /\ d = received + 1
    /\ pc[d] = "idle"
    /\ \E body \in Bodies :
        /\ payload' = [payload EXCEPT ![d] = body]
        /\ resp' = [resp EXCEPT ![d] = Respond(body)]
        /\ pc' = [pc EXCEPT ![d] = IF body.parseable THEN "dispatched" ELSE "rejected"]
    /\ received' = d
    /\ UNCHANGED <<phase, booted, gpio, processed_orders, locals, nfetch, hist, owner>>

----------------------------------------------------------------------------
(* handle_square_event *)

\* The for loop resumes at position i of items: it runs up to the next
\* `await client.get(obj_url)` or to the end of the loop and the final return.
Continue(d, items, i, h) ==
    LET j == NextItem(items, i)
        h2 == [n \in DOMAIN h |->
                  IF n >= i /\ n < j THEN [h[n] EXCEPT !.outcome = "no-id"] ELSE h[n]]
    IN  /\ hist' = [hist EXCEPT ![d] = h2]
        /\ idx' = [idx EXCEPT ![d] = j]
        /\ IF j > Len(items)
           THEN /\ pc' = [pc EXCEPT ![d] = "done"]
                /\ nfetch' = nfetch
           ELSE /\ pc' = [pc EXCEPT ![d] = "fetch_object"]
                /\ nfetch' = [nfetch EXCEPT ![d].object = @ + 1]

\* From the start of the task to `await client.get(order_url)`.
HandlerStart(d) ==
    /\ LoopFree
    /\ pc[d] = "dispatched"
    /\ LET p == payload[d] IN
        IF ~p.has_object
        THEN \* None.get("payment", {}) raises AttributeError
             /\ pc' = [pc EXCEPT ![d] = "error"]
             /\ UNCHANGED <<processed_orders, order_id, nfetch>>
        ELSE IF Ignorable(p)
        THEN /\ pc' = [pc EXCEPT ![d] = "ignored"]
             /\ UNCHANGED <<processed_orders, order_id, nfetch>>
        ELSE IF AlreadyProcessed(p.order_id, processed_orders)
        THEN /\ pc' = [pc EXCEPT ![d] = "duplicate"]
             /\ order_id' = [order_id EXCEPT ![d] = p.order_id]
             /\ UNCHANGED <<processed_orders, nfetch>>
        ELSE /\ processed_orders' = Admit(p.order_id, processed_orders)
             /\ order_id' = [order_id EXCEPT ![d] = p.order_id]
             /\ pc' = [pc EXCEPT ![d] = "fetch_order"]
             /\ nfetch' = [nfetch EXCEPT ![d].order = @ + 1]
    /\ UNCHANGED <<phase, booted, gpio, received, payload, resp, line_items, idx,
                   selection_uid, definition_id, slot_label, order_status, hist,
                   owner>>

\* client.get(order_url) returns or raises; on 200 the loop starts.
OrderResponse(d) ==
    /\ LoopFree
    /\ pc[d] = "fetch_order"
    /\ \E r \in OrderReplies(order_id[d]) :
        IF r.raised
        THEN /\ pc' = [pc EXCEPT ![d] = "error"]
             /\ UNCHANGED <<processed_orders, line_items, idx, order_status, nfetch, hist>>
        ELSE IF OrderFetchFailed(r)
        THEN /\ pc' = [pc EXCEPT ![d] = "fetch_error"]
             /\ order_status' = [order_status EXCEPT ![d] = r.status]
             /\ processed_orders' = AfterFetchError(order_id[d], processed_orders)
             /\ UNCHANGED <<line_items, idx, nfetch, hist>>
        ELSE /\ order_status' = [order_status EXCEPT ![d] = r.status]
             /\ line_items' = [line_items EXCEPT ![d] = r.body]
             /\ Continue(d, r.body, 1, [n \in 1..Len(r.body) |-> ItemHist])
             /\ UNCHANGED processed_orders
    /\ UNCHANGED <<phase, booted, gpio, received, payload, resp,
                   order_id, selection_uid, definition_id, slot_label, owner>>

\* client.get(obj_url) returns or raises.
ObjectResponse(d) ==
    /\ LoopFree
    /\ pc[d] = "fetch_object"
    /\ \E r \in ObjectReplies(CatalogObjectId(line_items[d][idx[d]])) :
        IF r.raised
        THEN \* the exception leaves the coroutine: nothing catches it
             /\ pc' = [pc EXCEPT ![d] = "error"]
             /\ hist' = [hist EXCEPT ![d][idx[d]].outcome = "catalog-fetch-raised"]
             /\ UNCHANGED <<idx, selection_uid, definition_id, nfetch>>
        ELSE IF r.status # 200
        THEN /\ Continue(d, line_items[d], idx[d] + 1,
                         [hist[d] EXCEPT ![idx[d]].outcome = "catalog-fetch-error"])
             /\ UNCHANGED <<selection_uid, definition_id>>
        ELSE IF r.body = <<>>
        THEN \* if not custom_attrs: ... return
             /\ pc' = [pc EXCEPT ![d] = "returned"]
             /\ hist' = [hist EXCEPT ![d][idx[d]].outcome = "no-attributes"]
             /\ UNCHANGED <<idx, selection_uid, definition_id, nfetch>>
        ELSE /\ selection_uid' = [selection_uid EXCEPT ![d] = FirstAttr(r.body).selection_uid]
             /\ definition_id' =
                    [definition_id EXCEPT
                        ![d] = FirstAttr(r.body).custom_attribute_definition_id]
             /\ pc' = [pc EXCEPT ![d] = "fetch_definition"]
             /\ nfetch' = [nfetch EXCEPT ![d].definition = @ + 1]
             /\ UNCHANGED <<idx, hist>>
    /\ UNCHANGED <<phase, booted, gpio, processed_orders, received, payload, resp,
                   order_id, line_items, slot_label, order_status, owner>>

\* client.get(definition_url) returns or raises; when the label is found the
\* first GPIO loop runs and the task enters time.sleep(3.3).
DefinitionResponse(d) ==
    /\ LoopFree
    /\ pc[d] = "fetch_definition"
    /\ \E r \in DefinitionReplies(definition_id[d]) :
        IF r.raised
        THEN /\ pc' = [pc EXCEPT ![d] = "error"]
             /\ hist' = [hist EXCEPT ![d][idx[d]].outcome = "definition-fetch-raised"]
             /\ UNCHANGED <<idx, slot_label, nfetch, gpio, owner>>
        ELSE IF r.status # 200
        THEN /\ Continue(d, line_items[d], idx[d] + 1,
                         [hist[d] EXCEPT ![idx[d]].outcome = "definition-fetch-error"])
             /\ UNCHANGED <<slot_label, gpio, owner>>
        ELSE LET label == FindLabel(r.body, selection_uid[d]) IN
             IF ~Truthy(label)
             THEN /\ slot_label' = [slot_label EXCEPT ![d] = label]
                  /\ Continue(d, line_items[d], idx[d] + 1,
                              [hist[d] EXCEPT ![idx[d]] =
                                  [@ EXCEPT !.outcome = "selection-not-found",
                                            !.selection_uid = selection_uid[d],
                                            !.allowed = r.body]])
                  /\ UNCHANGED <<gpio, owner>>
             ELSE \E k \in WriteOutcomes(RelaysToAssert(label)) :
                  /\ slot_label' = [slot_label EXCEPT ![d] = label]
                  /\ gpio' = Written(gpio, RelaysToAssert(label), k, "LOW")
                  /\ owner' = Owned(owner, RelaysToAssert(label), k, <<d, idx[d]>>)
                  /\ hist' = [hist EXCEPT ![d][idx[d]] =
                                 [@ EXCEPT !.outcome = "resolved", !.label = label,
                                           !.selection_uid = selection_uid[d],
                                           !.allowed = r.body,
                                           !.asserts = @ + 1]]
                  /\ pc' = [pc EXCEPT ![d] = IF k = Len(RelaysToAssert(label))
                                             THEN "dwell" ELSE "error"]
                  /\ UNCHANGED <<idx, nfetch>>
    /\ UNCHANGED <<phase, booted, processed_orders, received, payload, resp,
                   order_id, line_items, selection_uid, definition_id, order_status>>

\* time.sleep(3.3) returns; the second GPIO loop runs and the for loop resumes.
DwellEnd(d) ==
    /\ phase = "serving"
    /\ pc[d] = "dwell"
    /\ \E k \in WriteOutcomes(RelaysToRelease(slot_label[d])) :
        /\ gpio' = Written(gpio, RelaysToRelease(slot_label[d]), k, "HIGH")
        /\ owner' = Owned(owner, RelaysToRelease(slot_label[d]), k, NoOwner)
        /\ IF k = Len(RelaysToRelease(slot_label[d]))
           THEN Continue(d, line_items[d], idx[d] + 1,
                         [hist[d] EXCEPT ![idx[d]].cycles = @ + 1])
           ELSE /\ pc' = [pc EXCEPT ![d] = "error"]
                /\ UNCHANGED <<idx, nfetch, hist>>
    /\ UNCHANGED <<phase, booted, processed_orders, received, payload, resp,
                   order_id, line_items, selection_uid, definition_id, slot_label,
                   order_status>>

----------------------------------------------------------------------------

Next ==
    \/ SetupPin
    \/ UvicornRun
    \/ ProcessExit
    \/ \E d \in Deliveries : Webhook(d)
    \/ \E d \in Deliveries : HandlerStart(d)
    \/ \E d \in Deliveries : OrderResponse(d)
    \/ \E d \in Deliveries : ObjectResponse(d)
    \/ \E d \in Deliveries : DefinitionResponse(d)
    \/ \E d \in Deliveries : DwellEnd(d)

Spec == Init /\ [][Next]_vars

\* The event loop runs every task that is ready, every GET is answered (or
\* times out) and every sleep returns; the process may end at any time.
FairSpec ==
    /\ Spec
    /\ \A d \in Deliveries :
          /\ WF_vars(HandlerStart(d))
          /\ WF_vars(OrderResponse(d))
          /\ WF_vars(ObjectResponse(d))
          /\ WF_vars(DefinitionResponse(d))
          /\ WF_vars(DwellEnd(d))

----------------------------------------------------------------------------
(* Vocabulary of the properties *)

\* The request of delivery d carried a payment-completed event: type
\* payment.updated, status COMPLETED, an order id.
PaymentCompleted(d) ==
    /\ payload[d].parseable
    /\ payload[d].has_object
    /\ payload[d].type = "payment.updated"
    /\ payload[d].status = "COMPLETED"
    /\ payload[d].order_id \in OrderIds

\* The background task of delivery d has run its first step.
TaskRan(d) == pc[d] \notin {"idle", "rejected", "dispatched"}

\* Delivery d went on to the order fetch.
Admitted(d) == nfetch[d].order >= 1

\* The <<delivery, line item>> pairs on whose behalf a line is active now.
ActiveFor == {owner[p] : p \in Pins} \ {NoOwner}

\* Delivery d issued no GET and drove no line.
Quiet(d) ==
    /\ nfetch[d] = NoFetch
    /\ hist[d] = <<>>
    /\ \A w \in ActiveFor : w[1] # d

ValidFor(o) == {d \in Deliveries : PaymentCompleted(d) /\ TaskRan(d) /\ payload[d].order_id = o}

----------------------------------------------------------------------------
\* Two tasks are never inside time.sleep(3.3) at once.
OneDwellAtATime ==
    \A d1, d2 \in Deliveries : (pc[d1] = "dwell" /\ pc[d2] = "dwell") => d1 = d2

----------------------------------------------------------------------------
(* C1: of all the deliveries of valid payment-completed events that carry   *)
(* the same order id and whose task has run, exactly one was admitted (it   *)
(* went on to the order fetch); every other one ended as a duplicate, and   *)
(* the order id is in processed_orders.                                     *)
C1_AdmittedExactlyOnce ==
    \A o \in OrderIds :
        ValidFor(o) # {} =>
            /\ Cardinality({d \in ValidFor(o) : Admitted(d)}) = 1
            /\ \A d \in ValidFor(o) : ~Admitted(d) => pc[d] = "duplicate"
            /\ o \in processed_orders

\* Two deliveries of the same order: one is waiting for its order fetch, the
\* other one has already been turned away.
C1_Witness ==
    \E d1, d2 \in Deliveries :
        /\ d1 # d2
        /\ {d1, d2} \subseteq ValidFor("o1")
        /\ pc[d1] = "fetch_order"
        /\ pc[d2] = "duplicate"

(* C2: of two deliveries of the same valid payment-completed event whose    *)
(* tasks have both run, one issued no GET at all (order, catalog object,    *)
(* definition) and drove no relay line, whatever became of the other.       *)
C2_RedeliveryIsQuiet ==
    \A o \in OrderIds : \A d1, d2 \in ValidFor(o) :
        d1 # d2 => Quiet(d1) \/ Quiet(d2)

\* The first delivery has finished dispensing, the redelivery was turned away.
C2_Witness ==
    \E d1, d2 \in Deliveries :
        /\ d1 # d2
        /\ {d1, d2} \subseteq ValidFor("o1")
        /\ pc[d1] = "done"
        /\ \E i \in DOMAIN hist[d1] : hist[d1][i].cycles = 1
        /\ pc[d2] = "duplicate"
        /\ Quiet(d2)

\* The lines of the relays of slot `label`.
SlotPins(label) == {RELAY_PINS[SlotRelayGet(label)[n]] : n \in DOMAIN SlotRelayGet(label)}

\* Delivery d is inside the actuation of a slot (between the first and the
\* second GPIO loop of a running process).
Actuating(d) == phase = "serving" /\ pc[d] = "dwell"

(* C3: in every reachable state all active relay lines belong to one slot   *)
(* actuation of one order.                                                  *)
C3_SingleActuationLane ==
    \A p, q \in Pins :
        (gpio[p] = "LOW" /\ gpio[q] = "LOW") => owner[p] = owner[q]

\* Every active line has the <<delivery, line item>> that drove it, and no
\* other line has one.
OwnerTracksGpio ==
    \A p \in Pins : gpio[p] = "LOW" <=> owner[p] # NoOwner

(* C4: actuation is bracketed: a line is active only inside the actuation   *)
(* that drove it, every line of the slot is active throughout the dwell,    *)
(* and no line of the slot is active once the actuation has ended, however  *)
(* it ended.                                                                *)
C4_ActuationBracketed ==
    /\ \A p \in Pins :
          gpio[p] = "LOW" =>
              \E d \in Deliveries : Actuating(d) /\ owner[p] = <<d, idx[d]>>
    /\ \A d \in Deliveries :
          Actuating(d) => \A p \in SlotPins(slot_label[d]) : gpio[p] = "LOW"

\* What the platform's data resolve the line item to.
TrueLabel(item) ==
    LET c == CatalogObjectId(item) IN
    IF c \notin DOMAIN RemoteObjects THEN None
    ELSE IF RemoteObjects[c] = <<>> THEN None
    ELSE IF FirstAttr(RemoteObjects[c]).custom_attribute_definition_id
              \notin DOMAIN RemoteDefinitions THEN None
    ELSE FindLabel(
            RemoteDefinitions[FirstAttr(RemoteObjects[c]).custom_attribute_definition_id],
            FirstAttr(RemoteObjects[c]).selection_uid)

(* C5: when the task of an admitted order whose order fetch succeeded has   *)
(* returned, every line item that resolves to a slot label and none of      *)
(* whose fetches failed has had its relay set actuated exactly once,        *)
(* whatever happened to the other line items of the order.                  *)
C5_PartialFailureIndependence ==
    \A d \in Deliveries :
        pc[d] \in {"done", "returned"} =>
            \A i \in DOMAIN hist[d] :
                (/\ Truthy(TrueLabel(line_items[d][i]))
                 /\ hist[d][i].outcome \notin {"catalog-fetch-error", "definition-fetch-error"})
                => hist[d][i].asserts = 1 /\ hist[d][i].cycles = 1

\* The request of delivery d carried an event that is to be ignored: not the
\* payment-completed type, or not status COMPLETED, or no order id.
NotForDispense(d) ==
    /\ payload[d].parseable
    /\ payload[d].has_object
    /\ \/ payload[d].type # "payment.updated"
       \/ payload[d].status # "COMPLETED"
       \/ payload[d].order_id = None

(* C6: the step in which the task of an event of another type, of a status  *)
(* other than COMPLETED or without an order id runs leaves processed_orders, *)
(* every relay line and the count of GETs unchanged, and the task is over:  *)
(* it never fetches or drives a line; so an order id such an event carries  *)
(* is in processed_orders only if a valid event for it was admitted.        *)
C6_IgnoredEventChangesNothing ==
    /\ [][\A d \in Deliveries :
            (NotForDispense(d) /\ pc[d] = "dispatched" /\ pc'[d] # "dispatched"
                               /\ phase' = "serving") =>
                /\ pc'[d] = "ignored"
                /\ processed_orders' = processed_orders
                /\ gpio' = gpio
                /\ nfetch' = nfetch]_vars
    /\ [](\A d \in Deliveries :
            (NotForDispense(d) /\ TaskRan(d)) =>
                /\ Quiet(d)
                /\ payload[d].order_id \in processed_orders =>
                       \E d2 \in ValidFor(payload[d].order_id) : Admitted(d2))

\* An event with status APPROVED for order o1 was ignored, and the valid
\* event for o1 that arrived after it is admitted.
C6_Witness ==
    \E d1, d2 \in Deliveries :
        /\ d1 < d2
        /\ NotForDispense(d1)
        /\ payload[d1].status = "APPROVED"
        /\ payload[d1].order_id = "o1"
        /\ pc[d1] = "ignored"
        /\ d2 \in ValidFor("o1")
        /\ Admitted(d2)

(* C7: once the order fetch of a delivery was answered with a status other  *)
(* than 200, that delivery has issued the one order GET and nothing else,   *)
(* has driven no line, stays where it is for as long as the process runs    *)
(* (no retry), its order id is in                                           *)
(* processed_orders, every other delivery of that order whose task has run  *)
(* ended as a quiet duplicate, and no line item of the order was actuated.  *)
C7_FetchFailureForfeitsOrder ==
    /\ [](\A d \in Deliveries :
            order_status[d] \notin {0, 200} =>
                /\ pc[d] = "fetch_error"
                /\ nfetch[d] = [order |-> 1, object |-> 0, definition |-> 0]
                /\ hist[d] = <<>>
                /\ \A w \in ActiveFor : w[1] # d
                /\ order_id[d] \in processed_orders
                /\ \A d2 \in ValidFor(order_id[d]) \ {d} :
                       pc[d2] = "duplicate" /\ Quiet(d2))
    /\ [][\A d \in Deliveries :
            (pc[d] = "fetch_error" /\ phase' = "serving") => pc'[d] = "fetch_error"]_vars

\* The order fetch of the first delivery failed; the redelivery was turned away.
C7_Witness ==
    \E d1, d2 \in Deliveries :
        /\ d1 < d2
        /\ order_status[d1] = 500
        /\ pc[d1] = "fetch_error"
        /\ d2 \in ValidFor(order_id[d1])
        /\ pc[d2] = "duplicate"

\* The uids of a list of allowed selections.
Uids(allowed) == {allowed[n].uid : n \in DOMAIN allowed}

\* Line item i of delivery d got its attribute definition (the definition GET
\* answered 200).
DefinitionSeen(d, i) == hist[d][i].outcome \in {"selection-not-found", "resolved"}

(* C8: a line item whose selection uid is not the uid of any allowed         *)
(* selection of its attribute definition ends as selection-not-found, its   *)
(* relays are never driven LOW and no line is active on its behalf.         *)
C8_UnknownSelectionNotActuated ==
    \A d \in Deliveries : \A i \in DOMAIN hist[d] :
        (DefinitionSeen(d, i) /\ hist[d][i].selection_uid \notin Uids(hist[d][i].allowed)) =>
            /\ hist[d][i].outcome = "selection-not-found"
            /\ hist[d][i].asserts = 0
            /\ hist[d][i].cycles = 0
            /\ <<d, i>> \notin ActiveFor

\* Order o1 is done: its second line item carried a selection uid the
\* definition does not list, the items around it were dispensed.
C8_Witness ==
    \E d \in Deliveries :
        /\ pc[d] = "done"
        /\ order_id[d] = "o1"
        /\ hist[d][2].outcome = "selection-not-found"
        /\ hist[d][2].selection_uid = "sGone"
        /\ hist[d][2].allowed # <<>>
        /\ hist[d][1].cycles = 1
        /\ hist[d][3].cycles = 1

(* C9: within one order, when the relays of line item j have been driven    *)
(* LOW, every earlier line item i < j has been dealt with, and if i was     *)
(* actuated its cycle is complete: driven LOW once, driven HIGH again, no   *)
(* line active on its behalf; and all lines active on behalf of one         *)
(* delivery belong to one line item.                                        *)
C9_OneSlotAtATimeInOrder ==
    \A d \in Deliveries :
        /\ \A i, j \in DOMAIN hist[d] :
              (i < j /\ hist[d][j].asserts > 0) =>
                  /\ hist[d][i].outcome # "pending"
                  /\ hist[d][i].asserts > 0 =>
                        /\ hist[d][i].asserts = 1
                        /\ hist[d][i].cycles = 1
                        /\ <<d, i>> \notin ActiveFor
        /\ \A v, w \in ActiveFor : (v[1] = d /\ w[1] = d) => v = w

\* Order o1 is in the dwell of its third line item (slot B1) after the full
\* cycle of its first one (slot A1).
C9_Witness ==
    \E d \in Deliveries :
        /\ pc[d] = "dwell"
        /\ idx[d] = 3
        /\ hist[d][1].label = "A1" /\ hist[d][1].cycles = 1
        /\ hist[d][3].label = "B1" /\ hist[d][3].asserts = 1 /\ hist[d][3].cycles = 0
        /\ \A r \in {2, 12, 13, 14} : gpio[RELAY_PINS[r]] = "LOW"
        /\ gpio[RELAY_PINS[3]] = "HIGH"

(* C10: whenever the task of a delivery is queued or has run, the request   *)
(* has been answered with the acknowledgement (HTTP 200), no step of a      *)
(* task sends or changes a response, and a response, once sent, never       *)
(* changes, whatever the task does.                                         *)
C10_AckBeforeProcessing ==
    /\ [](\A d \in Deliveries :
            (payload[d].parseable /\ pc[d] # "idle") => resp[d] = Ack)
    /\ [][\A d \in Deliveries :
            (pc[d] \notin {"idle", "rejected"} /\ pc'[d] # pc[d]) => resp' = resp]_vars
    /\ [][\A d \in Deliveries : resp[d] # NoResponse => resp'[d] = resp[d]]_vars

\* One acknowledged event ended in a handler error, another one was ignored.
C10_Witness ==
    \E d1, d2 \in Deliveries :
        /\ pc[d1] = "error" /\ nfetch[d1].object >= 1 /\ resp[d1] = Ack
        /\ pc[d2] = "ignored" /\ resp[d2] = Ack


\* The task of delivery d is over: it returned or an exception ended it.
TaskOver(d) == pc[d] \in {"ignored", "duplicate", "fetch_error", "returned", "done", "error"}

(* C11: a catalog object fetch or a definition fetch that times out costs   *)
(* the order only that line item: when the task is over, every line item    *)
(* after the one whose fetch timed out has been dealt with (resolved and    *)
(* actuated, or skipped for a failure of its own).                          *)
C11_TimeoutSkipsOnlyItsItem ==
    \A d \in Deliveries :
        TaskOver(d) =>
            \A i, j \in DOMAIN hist[d] :
                (/\ i < j
                 /\ hist[d][i].outcome \in {"catalog-fetch-raised", "definition-fetch-raised"})
                => hist[d][j].outcome # "pending"


AllInactive == \A p \in Pins : gpio[p] = "HIGH"

(* C12: once the process has shut down, whatever it was doing when it did,  *)
(* all 16 relay lines are inactive.                                         *)
C12_ShutdownRestoresLines ==
    phase = "down" => AllInactive

SuspendedAtFetch(d) == pc[d] \in {"fetch_order", "fetch_object", "fetch_definition"}

NoDwell == \A d \in Deliveries : pc[d] # "dwell"

(* C14: while the task of one event is suspended at a GET (and no task is   *)
(* in its dwell), the endpoint can accept and acknowledge the next request, *)
(* the queued task of any other event can start, and any other task         *)
(* waiting for a response can take it.                                      *)
C14_PendingFetchBlocksNobody ==
    \A d1 \in Deliveries :
        (SuspendedAtFetch(d1) /\ phase = "serving" /\ NoDwell) =>
            /\ received < NumDeliveries => ENABLED Webhook(received + 1)
            /\ \A d2 \in Deliveries \ {d1} :
                  /\ pc[d2] = "dispatched" => ENABLED HandlerStart(d2)
                  /\ pc[d2] = "fetch_order" => ENABLED OrderResponse(d2)
                  /\ pc[d2] = "fetch_object" => ENABLED ObjectResponse(d2)
                  /\ pc[d2] = "fetch_definition" => ENABLED DefinitionResponse(d2)

\* The first event still waits for its order; the event accepted after it
\* was acknowledged, resolved and dispensed meanwhile.
C14_Witness ==
    /\ pc[1] = "fetch_order"
    /\ resp[2] = Ack
    /\ pc[2] = "done"
    /\ \E i \in DOMAIN hist[2] : hist[2][i].cycles = 1


\* Line item i of delivery d has had its relays driven LOW.
Asserted(d, i) == hist[d][i].asserts > 0

(* C15 as stated: all line items of an order are resolved before its        *)
(* actuation begins: once a relay of the order was asserted, no catalog     *)
(* object fetch and no definition fetch is pending for that order.          *)
C15_NoFetchAfterFirstAssert ==
    \A d \in Deliveries :
        (\E i \in DOMAIN hist[d] : Asserted(d, i)) =>
            pc[d] \notin {"fetch_object", "fetch_definition"}

(* C15 as amended: resolution and actuation alternate line item by line     *)
(* item and never go back: while a fetch is pending for an order, the fetch *)
(* is for a line item that was not actuated, every actuated line item lies  *)
(* before it and has completed its cycle, every line item after it is       *)
(* untouched, and no line is active on behalf of the order.                 *)
C15_PerItemResolveThenActuate ==
    \A d \in Deliveries :
        pc[d] \in {"fetch_object", "fetch_definition"} =>
            /\ ~Asserted(d, idx[d])
            /\ hist[d][idx[d]].outcome = "pending"
            /\ \A i \in DOMAIN hist[d] :
                  /\ Asserted(d, i) =>
                        i < idx[d] /\ hist[d][i].asserts = 1 /\ hist[d][i].cycles = 1
                  /\ i > idx[d] => hist[d][i].outcome = "pending"
            /\ \A w \in ActiveFor : w[1] # d

\* Order o1 has dispensed its first line item (slot A1) and now waits for
\* the catalog object of its third one.
C15_Witness ==
    \E d \in Deliveries :
        /\ order_id[d] = "o1"
        /\ pc[d] = "fetch_object"
        /\ idx[d] = 3
        /\ hist[d][1].label = "A1"
        /\ hist[d][1].cycles = 1
        /\ nfetch[d].object = 3


\* The task of delivery d returns from the for loop or from inside it.
Returned(d) == pc[d] \in {"done", "returned"}

(* C16, progress: every queued task comes to an end (or the process ends    *)
(* first), given that GETs are answered and sleeps return.                   *)
EveryTaskEnds ==
    \A d \in Deliveries : (pc[d] = "dispatched") ~> (TaskOver(d) \/ phase = "down")

(* C16: at the step in which the task of an admitted order whose order      *)
(* fetch succeeded returns, every line item that resolved to a slot label   *)
(* has had its relay set actuated (driven LOW once and HIGH again), and all *)
(* relay lines are inactive.                                                *)
C16_ReturnsAfterActuationWithLinesInactive ==
    [][\A d \in Deliveries :
          (~Returned(d) /\ Returned(d)' /\ order_status'[d] = 200) =>
              /\ \A i \in DOMAIN hist'[d] :
                    hist'[d][i].outcome = "resolved" =>
                        hist'[d][i].asserts = 1 /\ hist'[d][i].cycles = 1
              /\ AllInactive']_vars


\* The lines the table prescribes for a label; none for a label it lacks.
TablePins(label) ==
    IF label \in DOMAIN SLOT_RELAY
    THEN {RELAY_PINS[SLOT_RELAY[label][n]] : n \in DOMAIN SLOT_RELAY[label]}
    ELSE {}

(* C17: every label of SLOT_RELAY looks up to its non-empty sequence of     *)
(* relay ids, each a key 1..16 of RELAY_PINS; RELAY_PINS gives distinct     *)
(* relays distinct lines; a label that is not in SLOT_RELAY looks up to     *)
(* nothing; and in every dwell the lines active on behalf of the line item  *)
(* are exactly the lines of the relays the table gives for its label: none  *)
(* when the label is not in the table.                                      *)
C17_SlotMapLookup ==
    /\ \A label \in DOMAIN SLOT_RELAY :
          /\ SlotRelayGet(label) = SLOT_RELAY[label]
          /\ SlotRelayGet(label) # <<>>
          /\ \A n \in DOMAIN SlotRelayGet(label) :
                SlotRelayGet(label)[n] \in DOMAIN RELAY_PINS
    /\ DOMAIN RELAY_PINS = 1..NumRelays
    /\ \A r1, r2 \in DOMAIN RELAY_PINS : r1 # r2 => RELAY_PINS[r1] # RELAY_PINS[r2]
    /\ \A label \in {"D1", "E8", "", None} : SlotRelayGet(label) = <<>>
    /\ \A d \in Deliveries :
          pc[d] = "dwell" =>
              /\ hist[d][idx[d]].label = slot_label[d]
              /\ {p \in Pins : owner[p] = <<d, idx[d]>>} = TablePins(slot_label[d])
              /\ \A p \in TablePins(slot_label[d]) : gpio[p] = "LOW"

\* Order o2 is in the sleep of its line item that resolved to D1, a label
\* SLOT_RELAY does not have, after slot A2 was dispensed: no line is active.
C17_Witness ==
    \E d \in Deliveries :
        /\ pc[d] = "dwell"
        /\ slot_label[d] = "D1"
        /\ hist[d][idx[d]].outcome = "resolved"
        /\ hist[d][3].label = "A2" /\ hist[d][3].cycles = 1
        /\ AllInactive


\* Delivery d carries a payment-completed event with an order id, was
\* admitted, and its order fetch succeeded.
Cleared(d) ==
    /\ PaymentCompleted(d)
    /\ Admitted(d)
    /\ order_status[d] = 200

\* While the process runs, every active line was driven for a line item of a
\* cleared order.
AssertedOnlyForCleared ==
    phase = "serving" =>
        \A w \in ActiveFor : Cleared(w[1]) /\ w[2] \in DOMAIN line_items[w[1]]

(* C18: a line is active only on behalf of a line item of an order that      *)
(* passed validation, was admitted and whose order fetch succeeded; and      *)
(* whenever the server is running and no such order is in its dwell, all    *)
(* 16 lines are inactive.                                                   *)
C18_ActiveOnlyForClearedOrderInDwell ==
    /\ AssertedOnlyForCleared
    /\ (phase = "serving" /\ ~ \E d \in Deliveries : Cleared(d) /\ Actuating(d))
          => AllInactive


\* In this step no handler other than that of delivery d moves, and the
\* endpoint neither accepts nor answers a request.
OnlyMoves(d) ==
    /\ \A e \in Deliveries \ {d} : pc'[e] = pc[e] /\ nfetch'[e] = nfetch[e]
    /\ received' = received
    /\ resp' = resp

\* The same said of the lines rather than of the sleep. It does not hold: an
\* actuation that a GPIO.output error aborted leaves a line active with no
\* sleep in progress, and the loop is free (see C4).
LinesActiveHoldTheLoop ==
    [][\A w \in ActiveFor : phase' = "serving" => OnlyMoves(w[1])]_vars

(* C19: the assert, sleep, release cycle of a slot is not interleaved with   *)
(* anything: the lines are driven active in the step that enters the sleep   *)
(* and inactive in the step that leaves it, only one task sleeps at a time,  *)
(* and while it sleeps no step of another handler runs and the endpoint      *)
(* neither accepts nor answers a request, so that a request arriving during  *)
(* the sleep is acknowledged after it.                                       *)
C19_DwellHoldsTheLoop ==
    [][\A d \in Deliveries :
          /\ (pc[d] = "dwell" /\ phase' = "serving") =>
                /\ OnlyMoves(d)
                /\ \A e \in Deliveries \ {d} : pc[e] # "dwell"
                /\ \A p \in TablePins(slot_label[d]) : gpio[p] = "LOW"
          /\ (pc[d] = "dwell" /\ pc'[d] # "dwell" /\ phase' = "serving") =>
                \/ \A p \in TablePins(slot_label[d]) : gpio'[p] = "HIGH"
                \/ pc'[d] = "error"
          /\ (pc[d] # "dwell" /\ phase = "serving") =>
                \A p \in Pins : owner[p][1] = d => pc[d] = "error"]_vars

\* A task sleeps in its actuation while the handler of the other delivery,
\* acknowledged earlier, is part-way through and waits for the loop.
C19_Witness ==
    \E d, e \in Deliveries :
        /\ phase = "serving"
        /\ pc[d] = "dwell"
        /\ TablePins(slot_label[d]) # {}
        /\ pc[e] \in {"fetch_order", "fetch_object", "fetch_definition"}
        /\ resp[e] = Ack


\* The deliveries that issued the order GET for order o.
OrderFetchers(o) == {d \in Deliveries : nfetch[d].order >= 1 /\ order_id[d] = o}

(* C20: while the process lives, whatever the interleaving: at most one      *)
(* order GET is issued per order id; a delivery issues a GET, of whichever   *)
(* kind, only with its order id in processed_orders, where the id was put    *)
(* before the GET went out; and no step takes an order id out of             *)
(* processed_orders.                                                         *)
C20_OneFetchPerOrderSetOnlyGrows ==
    [][phase' = "serving" =>
          /\ processed_orders \subseteq processed_orders'
          /\ \A o \in OrderIds :
                /\ Cardinality(OrderFetchers(o)') <= 1
                /\ \A d \in OrderFetchers(o)' : nfetch'[d].order = 1
          /\ \A d \in Deliveries :
                nfetch'[d] # nfetch[d] =>
                    /\ order_id'[d] \in OrderIds
                    /\ order_id'[d] \in processed_orders'
                    /\ nfetch[d].order = 0 => order_id'[d] \notin processed_orders
                    /\ nfetch[d].order = 1 => order_id'[d] \in processed_orders]_vars

\* Both orders were admitted and fetched, each once, and both ids are in the
\* set while the second order's fetch is still pending.
C20_Witness ==
    /\ phase = "serving"
    /\ processed_orders = OrderIds
    /\ \A o \in OrderIds : Cardinality(OrderFetchers(o)) = 1
    /\ \E d \in Deliveries : pc[d] = "fetch_order"

====
